---- MODULE Spec2Model ----
(***************************************************************************)
(* A model of the request handlers of social_insecurity/routes.py: the     *)
(* session guard, index (login / registration), logout, stream, comments,  *)
(* friends, profile and the uploads serving route, over the relational     *)
(* tables Users, Posts, Comments, Friends and the uploads directory.       *)
(*                                                                         *)
(* Text that the code takes apart (file names, extensions) is a sequence   *)
(* of one-character strings; text that the code only stores or compares    *)
(* (user names, passwords, contents) is a plain string.                    *)
(***************************************************************************)
EXTENDS Naturals, Sequences, FiniteSets, Bags

VARIABLES
    Users,       \* table Users: sequence of rows, row i has id i
    Posts,       \* table Posts: sequence of rows, row i has id i
    Comments,    \* table Comments: sequence of rows, row i has id i
    Friends,     \* table Friends: a bag of <<u_id, f_id>> rows (no key, no constraint)
    uploadsDir,  \* names of the files in the uploads directory
    session,     \* the client's session: user_id and username, or cleared
    clock,       \* CURRENT_TIMESTAMP, in whole seconds
    allowed,     \* app.config["ALLOWED_EXTENSIONS"]
    clientFile,  \* the file name the client has at hand for an upload or a download
    pages,       \* the session-gated pages the client works with
    req,         \* the last request handled
    resp,        \* the response to it
    inflight     \* the bag of friends submissions in progress (interleaved handling only)

vars == <<Users, Posts, Comments, Friends, uploadsDir, session, clock,
          allowed, clientFile, pages, req, resp, inflight>>

tables == <<Users, Posts, Comments, Friends, uploadsDir>>

\* What no handler changes: the configuration and what the client has chosen
env == <<allowed, clientFile, pages>>

-----------------------------------------------------------------------------
(* Bounds of the model *)

MaxUsers == 2
MaxPosts == 2
MaxComments == 1
MaxClock == 1
MaxEdges == 2
MaxNameLen == 3
MaxServeLen == 5
MaxRequests == 2

(* Inputs *)

Usernames == {"alice", "bob"}
Passwords == {"pw1", "pw2"}
Contents == {"hello"}
CommentTexts == {"nice"}
Methods == {"GET", "POST"}
GatedRoutes == {"stream", "comments", "friends", "profile"}

NoId == 0
NoName == "-"
NULL == "NULL"
NoFile == <<>>
NoFlash == <<>>

ProfileFields == {"education", "employment", "music", "movie", "nationality", "birthday"}
EmptyProfile == [f \in ProfileFields |-> NULL]
ProfileForms ==
    { [education |-> "uis", employment |-> "none", music |-> "jazz",
       movie |-> "heat", nationality |-> "no", birthday |-> "2000-01-01"],
      [education |-> "ntnu", employment |-> "dev", music |-> "rock",
       movie |-> "alien", nationality |-> "se", birthday |-> "1999-12-31"] }

NoForm == [kind |-> "none"]

-----------------------------------------------------------------------------
(* Text *)

UploadChars == {"j", "J", ".", "/"}
ServeChars == {"h", "t", "m", "l", "j", "s", "H", "."}
TokenHex == {<<"0">>, <<"f">>}

SeqsUpTo(S, n) == UNION {[1..k -> S] : k \in 0..n}

\* str.lower()
LowerChar(c) == CASE c = "J" -> "j" [] c = "H" -> "h" [] OTHER -> c
Lower(s) == [i \in 1..Len(s) |-> LowerChar(s[i])]

\* "." in s
HasDot(s) == \E i \in 1..Len(s) : s[i] = "."

\* s.rsplit(".", 1)[-1] for a text that holds a dot
AfterLastDot(s) ==
    LET last == CHOOSE i \in 1..Len(s) :
                    s[i] = "." /\ \A j \in (i+1)..Len(s) : s[j] # "."
    IN SubSeq(s, last + 1, Len(s))

\* s.endswith(suffix)
EndsWith(s, suffix) ==
    /\ Len(s) >= Len(suffix)
    /\ SubSeq(s, Len(s) - Len(suffix) + 1, Len(s)) = suffix

\* werkzeug.utils.secure_filename: path separators become blanks, the words are
\* joined by "_", every character outside [A-Za-z0-9_.-] is dropped, and leading
\* and trailing "." and "_" are stripped
SafeChars == {"j", "s", "J", "h", "t", "m", "l", "H", "0", "f", ".", "_", "-"}
IsSafeChar(c) == c \in SafeChars

SepToBlank(s) == [i \in 1..Len(s) |-> IF s[i] = "/" THEN " " ELSE s[i]]

RECURSIVE JoinWordsFrom(_, _)
JoinWordsFrom(s, i) ==
    IF i > Len(s) THEN <<>>
    ELSE LET rest == JoinWordsFrom(s, i + 1)
         IN IF s[i] # " " THEN <<s[i]>> \o rest
            ELSE IF /\ i > 1
                    /\ s[i-1] # " "
                    /\ \E j \in (i+1)..Len(s) : s[j] # " "
                 THEN <<"_">> \o rest
                 ELSE rest

RECURSIVE StripDotUnderscore(_)
StripDotUnderscore(s) ==
    IF s = <<>> THEN s
    ELSE IF Head(s) \in {".", "_"} THEN StripDotUnderscore(Tail(s))
    ELSE IF s[Len(s)] \in {".", "_"} THEN StripDotUnderscore(SubSeq(s, 1, Len(s) - 1))
    ELSE s

secure_filename(s) ==
    StripDotUnderscore(SelectSeq(JoinWordsFrom(SepToBlank(s), 1), IsSafeChar))

\* raw.rsplit(".", 1)[-1].lower() if "." in raw else ""
UploadExt(raw) == IF HasDot(raw) THEN Lower(AfterLastDot(raw)) ELSE <<>>

\* f"{secrets.token_hex(8)}_{raw}"
UniqueName(token, raw) == token \o <<"_">> \o raw

-----------------------------------------------------------------------------
(* The data store gateway: the queries the handlers issue *)

UserIds == 1..Len(Users)

\* SELECT * FROM Users WHERE username = ?  (one=True): the id of the first such
\* row, NoId when there is none
SelectUserByUsername(name) ==
    IF \E i \in UserIds : Users[i].username = name
    THEN CHOOSE i \in UserIds :
            /\ Users[i].username = name
            /\ \A j \in 1..(i-1) : Users[j].username # name
    ELSE NoId

\* SELECT * FROM Users WHERE id = ?  (one=True)
SelectUserById(id) == IF id \in UserIds THEN id ELSE NoId

\* INSERT INTO Users (username, first_name, last_name, password)
InsertUser(username, first, last, password) ==
    Append(Users, [id |-> Len(Users) + 1, username |-> username,
                   first_name |-> first, last_name |-> last,
                   password |-> password, profile |-> EmptyProfile])

-----------------------------------------------------------------------------
(* Requests and responses *)

Request(route, method, username, post_id, form) ==
    [route |-> route, method |-> method, username |-> username,
     post_id |-> post_id, form |-> form]

\* handler: the function that produced the response; status: redirect, render,
\* forbidden or send; target: the endpoint or template; user: the username the
\* redirect carries; flash: the notice flashed; body: the rows rendered
Response(handler, status, target, user, flash, body) ==
    [handler |-> handler, status |-> status, target |-> target, user |-> user,
     flash |-> flash, body |-> body]

NoRequest == Request("none", "GET", NoName, 0, NoForm)
NoResponse == Response("none", "none", "none", NoName, NoFlash, <<>>)

ClearedSession == [user_id |-> NoId, username |-> NoName]

\* "user_id" not in session
SignedOut(s) == s.user_id = NoId

-----------------------------------------------------------------------------
(* index *)

\* A login that never compares the password
LoginOutcomeAnyPassword(uid, password) ==
    IF uid = NoId THEN "no_user" ELSE "ok"

\* The branch the login sub-form takes for the row found and the password given
LoginOutcome(uid, password) ==
    IF uid = NoId THEN "no_user"
    ELSE IF Users[uid].password # password THEN "wrong_password"
    ELSE "ok"

index(method, form) ==
    /\ req' = Request("index", method, NoName, 0, form)
    /\ IF form.kind = "login"
       THEN LET uid == SelectUserByUsername(form.username)
                outcome == LoginOutcome(uid, form.password)
            IN /\ UNCHANGED tables
               /\ CASE outcome = "no_user" ->
                         /\ UNCHANGED session
                         /\ resp' = Response("index", "render", "index.html.j2", NoName,
                                             <<"warning", "Sorry, this user does not exist!">>, <<>>)
                    [] outcome = "wrong_password" ->
                         /\ UNCHANGED session
                         /\ resp' = Response("index", "render", "index.html.j2", NoName,
                                             <<"warning", "Sorry, wrong password!">>, <<>>)
                    [] OTHER ->
                         /\ session' = [user_id |-> Users[uid].id,
                                        username |-> Users[uid].username]
                         /\ resp' = Response("index", "redirect", "stream",
                                             Users[uid].username, NoFlash, <<>>)
       ELSE IF form.kind = "register"
       THEN /\ Len(Users) < MaxUsers
            /\ Users' = InsertUser(form.username, form.first_name, form.last_name,
                                   form.password)
            /\ UNCHANGED <<Posts, Comments, Friends, uploadsDir, session>>
            /\ resp' = Response("index", "redirect", "index", NoName,
                                <<"success", "User successfully created!">>, <<>>)
       ELSE /\ UNCHANGED <<tables, session>>
            /\ resp' = Response("index", "render", "index.html.j2", NoName, NoFlash, <<>>)
    /\ UNCHANGED <<clock, env, inflight>>

LoginForms(names, passwords) ==
    {[kind |-> "login", username |-> u, password |-> p] : u \in names, p \in passwords}
RegisterForms(names, passwords) ==
    {[kind |-> "register", username |-> u, first_name |-> "First", last_name |-> "Last",
      password |-> p] : u \in names, p \in passwords}

(* logout *)

logout(method) ==
    /\ req' = Request("logout", method, NoName, 0, NoForm)
    /\ session' = ClearedSession
    /\ resp' = Response("logout", "redirect", "index", NoName, <<"info", "Logged out.">>, <<>>)
    /\ UNCHANGED <<tables, clock, env, inflight>>

(* login_required *)

\* A guard that lets every request through to the view
login_required_absent(view, request) == view

login_required(view, request) ==
    IF SignedOut(session)
    THEN /\ req' = request
         /\ resp' = Response("login_required", "redirect", "index", NoName,
                             <<"warning", "Please sign in.">>, <<>>)
         /\ UNCHANGED <<tables, session, clock, env, inflight>>
    ELSE view

\* CURRENT_TIMESTAMP advances by a second
Tick ==
    /\ clock < MaxClock
    /\ clock' = clock + 1
    /\ UNCHANGED <<tables, session, env, req, resp, inflight>>

-----------------------------------------------------------------------------
(* stream *)

PostIds == 1..Len(Posts)

\* A feed that follows only the edges the user made
StreamWhereOutgoingOnly(p, uid) ==
    \/ \E k \in 1..Len(Friends) : Friends[k].u_id = uid /\ Friends[k].f_id = Posts[p].u_id
    \/ Posts[p].u_id = uid

\* The WHERE clause of get_posts: the post's author is the source of an edge to
\* uid, the target of an edge from uid, or uid itself
StreamWhere(p, uid) ==
    \/ \E k \in 1..Len(Friends) : Friends[k].f_id = uid /\ Friends[k].u_id = Posts[p].u_id
    \/ \E k \in 1..Len(Friends) : Friends[k].u_id = uid /\ Friends[k].f_id = Posts[p].u_id
    \/ Posts[p].u_id = uid

\* FROM Posts AS p JOIN Users AS u ON u.id = p.u_id WHERE ...
StreamRows(uid) ==
    {p \in PostIds : Posts[p].u_id \in UserIds /\ StreamWhere(p, uid)}

\* ORDER BY creation_time DESC: every arrangement of the rows in which no row
\* comes before a row with a later creation_time; rows with equal creation_time
\* come in an order the query does not fix
NewestFirst(rows, table) ==
    {q \in [1..Cardinality(rows) -> rows] :
        \A i, j \in 1..Cardinality(rows) :
            i < j => /\ q[i] # q[j]
                     /\ table[q[i]].creation_time >= table[q[j]].creation_time}

\* INSERT INTO Posts (u_id, content, image, creation_time)
InsertPost(uid, content, image) ==
    Append(Posts, [id |-> Len(Posts) + 1, u_id |-> uid, content |-> content,
                   image |-> image, creation_time |-> clock])

\* A check that lets a name without an extension through
RejectedWhenExtensionGiven(ext) == ext # <<>> /\ ext \notin allowed

\* ext not in allowed
Rejected(ext) == ext \notin allowed

\* The name the route acts under: the URL's username, replaced by the session's
\* when they differ (a GET is redirected before this is used)
Canonical(urlname) == IF urlname # session.username THEN session.username ELSE urlname

MismatchedGet(method, urlname) == urlname # session.username /\ method = "GET"

\* A view entered without a signed-in session: session["user_id"] raises KeyError
\* (and url_for cannot build a URL for the absent username), the request fails
ServerError(route) ==
    /\ resp' = Response(route, "error", "none", NoName, NoFlash, <<>>)
    /\ UNCHANGED <<tables, session, clock, env, inflight>>

RedirectCanonical(route) ==
    /\ resp' = Response(route, "redirect", route, session.username, NoFlash, <<>>)
    /\ UNCHANGED <<tables, session, clock, env, inflight>>

stream_view(method, urlname, form) ==
    /\ req' = Request("stream", method, urlname, 0, form)
    /\ IF SignedOut(session)
       THEN ServerError("stream")
       ELSE IF MismatchedGet(method, urlname)
       THEN RedirectCanonical("stream")
       ELSE LET username == Canonical(urlname)
                uid == SelectUserById(session.user_id)
            IN /\ IF form.kind = "post"
                  THEN IF form.image # NoFile
                       THEN LET raw == secure_filename(form.image)
                                ext == UploadExt(raw)
                            IN IF Rejected(ext)
                               THEN /\ resp' = Response("stream", "redirect", "stream", username,
                                                        <<"warning", "File type not allowed">>, <<>>)
                                    /\ UNCHANGED tables
                               ELSE /\ Len(Posts) < MaxPosts
                                    /\ \E token \in TokenHex :
                                          /\ uploadsDir' = uploadsDir \cup {UniqueName(token, raw)}
                                          /\ Posts' = InsertPost(Users[uid].id, form.content,
                                                                 UniqueName(token, raw))
                                    /\ resp' = Response("stream", "redirect", "stream", username,
                                                        NoFlash, <<>>)
                                    /\ UNCHANGED <<Users, Comments, Friends>>
                       ELSE /\ Len(Posts) < MaxPosts
                            /\ Posts' = InsertPost(Users[uid].id, form.content, NoFile)
                            /\ resp' = Response("stream", "redirect", "stream", username,
                                                NoFlash, <<>>)
                            /\ UNCHANGED <<Users, Comments, Friends, uploadsDir>>
                  ELSE /\ \E posts \in NewestFirst(StreamRows(Users[uid].id), Posts) :
                            resp' = Response("stream", "render", "stream.html.j2", username,
                                             NoFlash, posts)
                       /\ UNCHANGED tables
               /\ UNCHANGED <<session, clock, env, inflight>>

stream(method, urlname, form) ==
    login_required(stream_view(method, urlname, form),
                   Request("stream", method, urlname, 0, form))

(* comments *)

\* INSERT INTO Comments (p_id, u_id, comment, creation_time)
InsertComment(post_id, uid, text) ==
    Append(Comments, [id |-> Len(Comments) + 1, p_id |-> post_id, u_id |-> uid,
                      comment |-> text, creation_time |-> clock])

\* SELECT * FROM Posts AS p JOIN Users AS u ON p.u_id = u.id WHERE p.id = ?
SelectPost(table, post_id) ==
    IF post_id \in 1..Len(table) /\ table[post_id].u_id \in UserIds THEN post_id ELSE NoId

\* FROM Comments AS c JOIN Users AS u ON c.u_id = u.id WHERE c.p_id = ?
CommentRows(table, post_id) ==
    {c \in 1..Len(table) : table[c].u_id \in UserIds /\ table[c].p_id = post_id}

\* The page rendered: the post found (NoId when absent), then its comments
comments_view(method, urlname, post_id, form) ==
    /\ req' = Request("comments", method, urlname, post_id, form)
    /\ IF SignedOut(session)
       THEN ServerError("comments")
       ELSE IF MismatchedGet(method, urlname)
       THEN RedirectCanonical("comments")
       ELSE LET username == Canonical(urlname)
                uid == SelectUserById(session.user_id)
            IN /\ IF form.kind = "comment"
                  THEN /\ Len(Comments) < MaxComments
                       /\ Comments' = InsertComment(post_id, Users[uid].id, form.comment)
                  ELSE UNCHANGED Comments
               /\ \E rows \in NewestFirst(CommentRows(Comments', post_id), Comments') :
                      resp' = Response("comments", "render", "comments.html.j2", username,
                                       NoFlash, <<SelectPost(Posts, post_id)>> \o rows)
               /\ UNCHANGED <<Users, Posts, Friends, uploadsDir, session, clock, env, inflight>>

comments(method, urlname, post_id, form) ==
    login_required(comments_view(method, urlname, post_id, form),
                   Request("comments", method, urlname, post_id, form))

(* friends *)

\* SELECT f_id FROM Friends WHERE u_id = ?
SelectFriendIds(table, uid) ==
    {table[k].f_id : k \in {i \in 1..Len(table) : table[i].u_id = uid}}

\* A submission that is not compared with the edges read
FriendOutcomeNoEdgeCheck(uid, fid, f_ids) ==
    IF fid = NoId THEN "no_user"
    ELSE IF fid = uid THEN "self"
    ELSE "insert"

\* A submission that is not compared with the user's own id
FriendOutcomeNoSelfCheck(uid, fid, f_ids) ==
    IF fid = NoId THEN "no_user"
    ELSE IF fid \in f_ids THEN "already"
    ELSE "insert"

\* The branch a friends submission takes for the row found (fid) and the f_ids read
FriendOutcome(uid, fid, f_ids) ==
    IF fid = NoId THEN "no_user"
    ELSE IF fid = uid THEN "self"
    ELSE IF fid \in f_ids THEN "already"
    ELSE "insert"

FriendFlash(outcome) ==
    CASE outcome = "no_user" -> <<"warning", "User does not exist!">>
      [] outcome = "self" -> <<"warning", "You cannot be friends with yourself!">>
      [] outcome = "already" -> <<"warning", "You are already friends with this user!">>
      [] OTHER -> <<"success", "Friend successfully added!">>

\* INSERT INTO Friends (u_id, f_id)
InsertFriend(table, uid, fid) == Append(table, [u_id |-> uid, f_id |-> fid])

\* FROM Friends AS f JOIN Users AS u ON f.f_id = u.id WHERE f.u_id = ? AND f.f_id != ?
FriendsList(table, uid) ==
    LET Listed(row) == row.f_id \in UserIds /\ row.u_id = uid /\ row.f_id # uid
        rows == SelectSeq(table, Listed)
    IN [k \in 1..Len(rows) |-> rows[k].f_id]

friends_view(method, urlname, form) ==
    /\ req' = Request("friends", method, urlname, 0, form)
    /\ IF SignedOut(session)
       THEN ServerError("friends")
       ELSE IF MismatchedGet(method, urlname)
       THEN RedirectCanonical("friends")
       ELSE LET username == Canonical(urlname)
                uid == SelectUserById(session.user_id)
            IN /\ IF form.kind = "friend"
                  THEN LET fid == SelectUserByUsername(form.username)
                           f_ids == SelectFriendIds(Friends, Users[uid].id)
                           outcome == FriendOutcome(Users[uid].id, fid, f_ids)
                       IN /\ IF outcome = "insert"
                             THEN /\ Len(Friends) < MaxEdges
                                  /\ Friends' = InsertFriend(Friends, Users[uid].id, fid)
                             ELSE UNCHANGED Friends
                          /\ resp' = Response("friends", "render", "friends.html.j2", username,
                                              FriendFlash(outcome),
                                              FriendsList(Friends', Users[uid].id))
                  ELSE /\ UNCHANGED Friends
                       /\ resp' = Response("friends", "render", "friends.html.j2", username,
                                           NoFlash, FriendsList(Friends, Users[uid].id))
               /\ UNCHANGED <<Users, Posts, Comments, uploadsDir, session, clock, env, inflight>>

friends(method, urlname, form) ==
    login_required(friends_view(method, urlname, form),
                   Request("friends", method, urlname, 0, form))

FriendForms == {[kind |-> "friend", username |-> u] : u \in Usernames}

(* friends, one data-store call at a time: inflight is the bag of submissions  *)
(* in progress, each holding what it has read so far                          *)

Submission(pc, form, uid, fid, f_ids) ==
    [pc |-> pc, form |-> form, user_id |-> uid, friend |-> fid, f_ids |-> f_ids]

\* lines 198-215: the session is read, then the user row and the friend row
friends_begin(urlname, form) ==
    /\ BagCardinality(inflight) < MaxRequests
    /\ ~SignedOut(session)
    /\ urlname = session.username
    /\ inflight' = inflight (+) SetToBag({Submission("found", form,
                                           SelectUserById(session.user_id),
                                           SelectUserByUsername(form.username), {})})
    /\ UNCHANGED <<tables, session, clock, env, req, resp>>

\* lines 216-219: the edges of the user are read
friends_select(s) ==
    /\ s.pc = "found"
    /\ inflight' = (inflight (-) SetToBag({s}))
                   (+) SetToBag({Submission("selected", s.form, s.user_id, s.friend,
                                            SelectFriendIds(Friends, s.user_id))})
    /\ UNCHANGED <<tables, session, clock, env, req, resp>>

\* lines 221-244: the branch is taken on what was read, the edge inserted, the list read
friends_finish(s) ==
    /\ s.pc = "selected"
    /\ LET outcome == FriendOutcome(s.user_id, s.friend, s.f_ids)
       IN /\ IF outcome = "insert"
             THEN /\ Len(Friends) < MaxEdges
                  /\ Friends' = InsertFriend(Friends, s.user_id, s.friend)
             ELSE UNCHANGED Friends
          /\ req' = Request("friends", "POST", Users[s.user_id].username, 0, s.form)
          /\ resp' = Response("friends", "render", "friends.html.j2",
                              Users[s.user_id].username, FriendFlash(outcome),
                              FriendsList(Friends', s.user_id))
    /\ inflight' = inflight (-) SetToBag({s})
    /\ UNCHANGED <<Users, Posts, Comments, uploadsDir, session, clock, env>>

(* profile *)

\* An UPDATE without its WHERE clause
UpdateProfileEveryRow(id, fields) ==
    [i \in 1..Len(Users) |-> [Users[i] EXCEPT !.profile = fields]]

\* UPDATE Users SET education = ?, ... WHERE id = ?
UpdateProfile(id, fields) ==
    [i \in 1..Len(Users) |-> IF Users[i].id = id
                             THEN [Users[i] EXCEPT !.profile = fields]
                             ELSE Users[i]]

profile_view(method, urlname, form) ==
    /\ req' = Request("profile", method, urlname, 0, form)
    /\ IF SignedOut(session)
       THEN ServerError("profile")
       ELSE IF MismatchedGet(method, urlname)
       THEN RedirectCanonical("profile")
       ELSE LET username == Canonical(urlname)
                uid == SelectUserById(session.user_id)
            IN /\ IF form.kind = "profile"
                  THEN /\ Users' = UpdateProfile(session.user_id, form.fields)
                       /\ resp' = Response("profile", "redirect", "profile", username,
                                           NoFlash, <<>>)
                  ELSE /\ UNCHANGED Users
                       /\ resp' = Response("profile", "render", "profile.html.j2", username,
                                           NoFlash, <<uid>>)
               /\ UNCHANGED <<Posts, Comments, Friends, uploadsDir, session, clock, env, inflight>>

profile(method, urlname, form) ==
    login_required(profile_view(method, urlname, form),
                   Request("profile", method, urlname, 0, form))

(* uploads *)

ActiveContent == {<<".", "h", "t", "m", "l">>, <<".", "h", "t", "m">>, <<".", "j", "s">>}

\* A block list that misses scripts
IsActiveContentMarkupOnly(lower) ==
    \/ EndsWith(lower, <<".", "h", "t", "m", "l">>)
    \/ EndsWith(lower, <<".", "h", "t", "m">>)

\* lower.endswith((".html", ".htm", ".js"))
IsActiveContent(lower) == \E suffix \in ActiveContent : EndsWith(lower, suffix)

\* lower.rsplit(".", 1)[-1] if "." in lower else ""
ServeExt(lower) == IF HasDot(lower) THEN AfterLastDot(lower) ELSE <<>>

\* "forbidden": abort(403); "send": send_from_directory streams the file;
\* "not_found": send_from_directory finds no such file
ServeStatus(filename) ==
    LET lower == Lower(filename)
    IN IF IsActiveContent(lower) THEN "forbidden"
       ELSE IF ServeExt(lower) \notin allowed THEN "forbidden"
       ELSE IF filename \in uploadsDir THEN "send"
       ELSE "not_found"

uploads(filename) ==
    /\ req' = Request("uploads", "GET", NoName, 0, [kind |-> "file", filename |-> filename])
    /\ resp' = Response("uploads", ServeStatus(filename), "uploads", NoName, NoFlash, <<>>)
    /\ UNCHANGED <<tables, session, clock, env, inflight>>

-----------------------------------------------------------------------------
(* Requests a client can make *)

DefaultAllowed == {<<"j">>}

\* What a request of the method can carry: a valid submission only with POST
Forms(method, submissions) ==
    IF method = "POST" THEN submissions \cup {NoForm} ELSE {NoForm}

PostForms(images) ==
    {[kind |-> "post", content |-> c, image |-> i] : c \in Contents, i \in images}
CommentForms == {[kind |-> "comment", comment |-> c] : c \in CommentTexts}
ProfileSubmissions(fields) == {[kind |-> "profile", fields |-> f] : f \in fields}

IndexWith(names, passwords) ==
    \E m \in Methods :
        \E f \in Forms(m, LoginForms(names, passwords) \cup RegisterForms(names, passwords)) :
            index(m, f)

Index == IndexWith(Usernames, Passwords)

IndexOnePassword == IndexWith(Usernames, {"pw1"})

Logout == \E m \in Methods : logout(m)

StreamWith(names, images) ==
    \E m \in Methods, u \in names : \E f \in Forms(m, PostForms(images)) : stream(m, u, f)

Stream == StreamWith(Usernames, {NoFile})

CommentsPage ==
    \E m \in Methods, u \in Usernames, p \in 1..MaxPosts : \E f \in Forms(m, CommentForms) :
        comments(m, u, p, f)

FriendsPage == \E m \in Methods, u \in Usernames : \E f \in Forms(m, FriendForms) : friends(m, u, f)

ProfilePage ==
    \E m \in Methods, u \in Usernames : \E f \in Forms(m, ProfileSubmissions(ProfileForms)) :
        profile(m, u, f)

InitStore ==
    /\ Users = <<>>
    /\ Posts = <<>>
    /\ Comments = <<>>
    /\ Friends = <<>>
    /\ uploadsDir = {}
    /\ session = ClearedSession
    /\ clock = 0
    /\ req = NoRequest
    /\ resp = NoResponse
    /\ inflight = EmptyBag

Init ==
    /\ InitStore
    /\ allowed = DefaultAllowed
    /\ clientFile = NoFile
    /\ pages = GatedRoutes

-----------------------------------------------------------------------------
(* Spec: registration, login, logout and profile updates *)

Next ==
    \/ Index
    \/ Logout
    \/ ProfilePage

Spec == Init /\ [][Next]_vars

(* SpecGated: every session-gated route, signed in and signed out *)

\* Each client works with one of the gated pages
InitGated ==
    /\ InitStore
    /\ allowed = DefaultAllowed
    /\ clientFile = NoFile
    /\ pages \in {{r} : r \in GatedRoutes}

GatedStream == "stream" \in pages /\ Stream
GatedComments == "comments" \in pages /\ CommentsPage
GatedFriends == "friends" \in pages /\ FriendsPage
GatedProfile == "profile" \in pages /\ ProfilePage

NextGated ==
    \/ IndexOnePassword
    \/ Logout
    \/ GatedStream
    \/ GatedComments
    \/ GatedFriends
    \/ GatedProfile

SpecGated == InitGated /\ [][NextGated]_vars

(* SpecFeed: friends and the stream *)

NextFeed ==
    \/ IndexOnePassword
    \/ Logout
    \/ Stream
    \/ FriendsPage

SpecFeed == Init /\ [][NextFeed]_vars

(* SpecOrder: posts as the seconds pass *)

NextOrder ==
    \/ IndexOnePassword
    \/ Logout
    \/ Stream
    \/ Tick

SpecOrder == Init /\ [][NextOrder]_vars

(* SpecUpload: posts with an attached image, and the files served back *)

UploadAllowLists == {{}, {<<"j">>}, {<<"J">>, <<"j", "j">>}}

FileNames(chars, n) == SeqsUpTo(chars, n) \ {<<>>}

InitUpload ==
    /\ InitStore
    /\ allowed \in UploadAllowLists
    /\ clientFile \in FileNames(UploadChars, MaxNameLen)
    /\ pages = GatedRoutes

IndexAlice == IndexWith({"alice"}, {"pw1"})

StreamUpload == StreamWith({"alice"}, {NoFile, clientFile})

Download == \E f \in uploadsDir \cup {clientFile} : uploads(f)

NextUpload ==
    \/ IndexAlice
    \/ StreamUpload
    \/ Download

SpecUpload == InitUpload /\ [][NextUpload]_vars

(* SpecServe: the uploads route on every file name *)

ServeAllowLists ==
    {{}, {<<"m">>, <<"t">>}, {<<"j", "s">>, <<"h", "t", "m">>, <<"h", "t", "m", "l">>, <<"s">>}}

InitServe ==
    /\ InitStore
    /\ allowed \in ServeAllowLists
    /\ clientFile \in FileNames(ServeChars, MaxServeLen)
    /\ pages = GatedRoutes

Serve == uploads(clientFile)

NextServe == Serve

SpecServe == InitServe /\ [][NextServe]_vars

(* SpecRace: friends submissions handled one data-store call at a time *)

FriendsBegin == \E u \in Usernames, f \in FriendForms : friends_begin(u, f)

FriendsSelect == \E s \in BagToSet(inflight) : friends_select(s)

FriendsFinish == \E s \in BagToSet(inflight) : friends_finish(s)

NextRace ==
    \/ IndexOnePassword
    \/ FriendsBegin
    \/ FriendsSelect
    \/ FriendsFinish

SpecRace == Init /\ [][NextRace]_vars

-----------------------------------------------------------------------------
(* Properties *)

IsLogin(r) == r.route = "index" /\ r.form.kind = "login"

\* Some registration stored the username with the password
Registered(username, password) ==
    \E i \in UserIds : Users[i].username = username /\ Users[i].password = password

\* C1: a login with the username and password of any registration made before
\* it succeeds: the response redirects to that user's stream and the session
\* holds the id and username of a User row registered with that username and
\* password, also when another registration used the same username.
C1_LoginAfterRegistration ==
    (IsLogin(req) /\ Registered(req.form.username, req.form.password))
    => /\ resp.status = "redirect"
       /\ resp.target = "stream"
       /\ resp.user = req.form.username
       /\ session.user_id \in UserIds
       /\ Users[session.user_id].username = req.form.username
       /\ Users[session.user_id].password = req.form.password
       /\ session.username = req.form.username

\* C3: a login submission that fails, because no User row has the username or
\* because the password differs from the stored one, flashes a warning, renders
\* the index page and leaves the session as it was.
C3_FailedLoginKeepsSession ==
    [][(/\ IsLogin(req')
        /\ \/ \A i \in UserIds : Users[i].username # req'.form.username
           \/ /\ SelectUserByUsername(req'.form.username) # NoId
              /\ Users[SelectUserByUsername(req'.form.username)].password
                    # req'.form.password)
       => /\ session' = session
          /\ resp'.status = "render"
          /\ resp'.flash # NoFlash
          /\ resp'.flash[1] = "warning"]_vars

\* A signed-in client whose login with a wrong password was refused
C3_Witness ==
    /\ IsLogin(req)
    /\ resp.flash = <<"warning", "Sorry, wrong password!">>
    /\ session.user_id # NoId

\* The table after the step is the table before it, or that with one row
\* appended whose u_id is uid
AppendedBy(before, after, uid) ==
    \/ after = before
    \/ /\ Len(after) = Len(before) + 1
       /\ SubSeq(after, 1, Len(before)) = before
       /\ after[Len(after)].u_id = uid

\* C2: a request to stream, comments, friends or profile, GET or POST, made
\* while the session holds no user_id is answered by the guard with the
\* "Please sign in." warning and a redirect to index; the view is not entered,
\* and the tables, the uploads directory and the session stay as they were.
C2_SignedOutIsTurnedAway ==
    [][(req'.route \in GatedRoutes /\ SignedOut(session))
       => /\ resp'.handler = "login_required"
          /\ resp'.status = "redirect"
          /\ resp'.target = "index"
          /\ resp'.flash = <<"warning", "Please sign in.">>
          /\ tables' = tables
          /\ session' = session]_vars

\* After a logout: a post submission by a signed-out client, turned away while
\* the Posts table holds a post of an earlier session
C2_Witness ==
    /\ req.route = "stream"
    /\ req.method = "POST"
    /\ req.form.kind = "post"
    /\ resp.handler = "login_required"
    /\ Len(Posts) > 0
    /\ SignedOut(session)

\* C8: a signed-in request to a gated route whose URL names another user is, as
\* a GET, redirected to the same route under the session's username with no
\* write; any signed-in request to a gated route appends at most one row to one
\* of Posts, Comments, Friends, with u_id the session's user_id, or changes only
\* the profile fields of the User row whose id is the session's user_id; and no
\* request changes the id, username or password of a User row.
C8_WritesAreTheSessionUsers ==
    [][/\ (req'.route \in GatedRoutes /\ ~SignedOut(session))
          => /\ (req'.username # session.username /\ req'.method = "GET")
                => /\ resp'.status = "redirect"
                   /\ resp'.target = req'.route
                   /\ resp'.user = session.username
                   /\ tables' = tables
             /\ AppendedBy(Posts, Posts', session.user_id)
             /\ AppendedBy(Comments, Comments', session.user_id)
             /\ AppendedBy(Friends, Friends', session.user_id)
             /\ Len(Users') = Len(Users)
             /\ \A i \in UserIds :
                    /\ i # session.user_id => Users'[i] = Users[i]
                    /\ [Users'[i] EXCEPT !.profile = Users[i].profile] = Users[i]
       /\ \A i \in UserIds :
              /\ i <= Len(Users')
              /\ Users'[i].id = Users[i].id
              /\ Users'[i].username = Users[i].username
              /\ Users'[i].password = Users[i].password]_vars

\* A profile submission under another user's URL, stored in the row of the
\* session's user while the other user's row keeps its empty profile
C8_Witness ==
    /\ req.route = "profile"
    /\ req.method = "POST"
    /\ req.form.kind = "profile"
    /\ ~SignedOut(session)
    /\ req.username # session.username
    /\ Users[session.user_id].profile = req.form.fields
    /\ \E i \in UserIds : /\ Users[i].username = req.username
                          /\ Users[i].profile = EmptyProfile

Edge(a, b) == \E k \in 1..Len(Friends) : Friends[k].u_id = a /\ Friends[k].f_id = b

Range(q) == {q[i] : i \in 1..Len(q)}

IsFriendSubmission(r) == r.route = "friends" /\ r.form.kind = "friend"

\* C4: handled one at a time, no request leaves a self-edge or two equal rows
\* in Friends; a friends submission whose target is the session's own user, or
\* a user the session's user already has an edge to, flashes a warning and
\* leaves Friends as it was.
C4_NoSelfEdgeNoDuplicate ==
    [][/\ \A k \in 1..Len(Friends') : Friends'[k].u_id # Friends'[k].f_id
       /\ \A i, j \in 1..Len(Friends') : i # j => Friends'[i] # Friends'[j]
       /\ (/\ IsFriendSubmission(req')
           /\ ~SignedOut(session)
           /\ LET target == SelectUserByUsername(req'.form.username)
              IN /\ target # NoId
                 /\ target = session.user_id \/ Edge(session.user_id, target))
          => /\ Friends' = Friends
             /\ resp'.flash # NoFlash
             /\ resp'.flash[1] = "warning"]_vars

\* A second submission for a user already friended, refused
C4_Witness ==
    /\ IsFriendSubmission(req)
    /\ resp.flash = <<"warning", "You are already friends with this user!">>
    /\ Len(Friends) = 1

\* C5: when a has an edge to b and b none to a, the friends list of a holds b,
\* the friends list of b does not hold a, and the stream of each holds every
\* post of the other; the stream rendered for a user is exactly the posts whose
\* author is the user or shares an edge with the user in either direction,
\* each once, and the friends list rendered is exactly the targets of the
\* user's own edges.
C5_DirectedListSymmetricStream ==
    /\ \A a, b \in UserIds :
          (a # b /\ Edge(a, b) /\ ~Edge(b, a))
          => /\ b \in Range(FriendsList(Friends, a))
             /\ a \notin Range(FriendsList(Friends, b))
             /\ \A p \in PostIds :
                    Posts[p].u_id \in {a, b} => p \in StreamRows(a) /\ p \in StreamRows(b)
    /\ (resp.handler = "stream" /\ resp.status = "render")
       => /\ Range(resp.body) =
                {p \in PostIds : \/ Posts[p].u_id = session.user_id
                                 \/ Edge(Posts[p].u_id, session.user_id)
                                 \/ Edge(session.user_id, Posts[p].u_id)}
          /\ Len(resp.body) = Cardinality(Range(resp.body))
    /\ (resp.handler = "friends" /\ resp.status = "render")
       => Range(resp.body) =
             {b \in UserIds : b # session.user_id /\ Edge(session.user_id, b)}

\* The stream rendered for a user shows a post of someone who friended the
\* user and whom the user did not friend
C5_Witness ==
    /\ resp.handler = "stream"
    /\ resp.status = "render"
    /\ \E p \in Range(resp.body) :
          /\ Posts[p].u_id # session.user_id
          /\ Edge(Posts[p].u_id, session.user_id)
          /\ ~Edge(session.user_id, Posts[p].u_id)
          /\ Posts[p].u_id \notin Range(FriendsList(Friends, session.user_id))

\* C9: in the stream rendered, of two posts by the same user the one created
\* later comes first, also when both carry the same creation_time.
C9_LaterPostFirst ==
    (resp.handler = "stream" /\ resp.status = "render")
    => \A i, j \in 1..Len(resp.body) :
          (i < j /\ Posts[resp.body[i]].u_id = Posts[resp.body[j]].u_id)
          => resp.body[i] > resp.body[j]

\* C6: a post submission with an attached file whose sanitized lowercase
\* extension is not in the allow-list (a name without extension included)
\* writes no file, inserts no Post, flashes "File type not allowed" and
\* redirects to the stream; and every Post row with an image names a file
\* whose lowercase extension is in the allow-list.
C6_DisallowedUploadWritesNothing ==
    [][/\ (/\ req'.route = "stream"
           /\ req'.form.kind = "post"
           /\ req'.form.image # NoFile
           /\ ~SignedOut(session)
           /\ UploadExt(secure_filename(req'.form.image)) \notin allowed)
          => /\ uploadsDir' = uploadsDir
             /\ Posts' = Posts
             /\ resp'.status = "redirect"
             /\ resp'.target = "stream"
             /\ resp'.flash = <<"warning", "File type not allowed">>
       /\ \A p \in 1..Len(Posts') :
              Posts'[p].image # NoFile
              => /\ HasDot(Posts'[p].image)
                 /\ Lower(AfterLastDot(Posts'[p].image)) \in allowed]_vars

\* The upload of ".j" where "j" is allowed: sanitized to "j", a name without
\* extension, and refused
C6_Witness ==
    /\ req.route = "stream"
    /\ req.form.kind = "post"
    /\ req.form.image = <<".", "j">>
    /\ allowed = {<<"j">>}
    /\ resp.flash = <<"warning", "File type not allowed">>
    /\ Posts = <<>>
    /\ uploadsDir = {}

\* C7: the uploads route answers forbidden for every name whose lowercase form
\* ends in .html, .htm or .js, whatever the allow-list holds, and for every
\* name whose lowercase extension is not in the allow-list or that has no
\* extension; only a name with neither reaches send_from_directory.
C7_ServeGuard ==
    req.route = "uploads"
    => LET lower == Lower(req.form.filename)
           active == \/ EndsWith(lower, <<".", "h", "t", "m", "l">>)
                     \/ EndsWith(lower, <<".", "h", "t", "m">>)
                     \/ EndsWith(lower, <<".", "j", "s">>)
           listed == HasDot(lower) /\ AfterLastDot(lower) \in allowed
       IN /\ active => resp.status = "forbidden"
          /\ ~listed => resp.status = "forbidden"
          /\ (~active /\ listed) => resp.status \in {"send", "not_found"}

\* A markup name written with a capital, refused although "htm" is in the
\* allow-list
C7_Witness ==
    /\ req.route = "uploads"
    /\ req.form.filename = <<"t", ".", "H", "t", "m">>
    /\ <<"h", "t", "m">> \in allowed
    /\ resp.status = "forbidden"

\* C10: with the data-store calls of friends submissions interleaved, no
\* self-edge is ever stored (two equal rows can be: C10_DuplicateEdge).
C10_NoSelfEdgeWhenInterleaved ==
    \A k \in 1..Len(Friends) : Friends[k].u_id # Friends[k].f_id

\* Two submissions of one user for one target both read the edges before
\* either inserted: Friends holds the same row twice
C10_DuplicateEdge ==
    \E i, j \in 1..Len(Friends) : i < j /\ Friends[i] = Friends[j]

====
